---- MODULE Spec2Model ----
(***************************************************************************)
(* Model of the round-based hypothesis/experiment scheduler of             *)
(* zerozerocode: debug_issue (src/debugging.py) with the data model of     *)
(* src/models.py and the add_context wrappers of src/llms.py.              *)
(*                                                                         *)
(* Strings are sequences of tokens, so that joining and formatting are     *)
(* computed as concatenations.  Floats are the integers they denote.       *)
(* bool | None is one of "true", "false", "none".                          *)
(*                                                                         *)
(* The four collaborators (theory generator, proposer, estimator, runner)  *)
(* are the environment.  The proposer and the estimator are the literal    *)
(* functions of src/debugging.py; the theory generator is a language model *)
(* and the runner a replaceable probe, so their outputs are drawn from     *)
(* bounded sets that contain what the functions in the repository return.  *)
(* Theory.issue is never read by debug_issue and is left out of the        *)
(* records.  A call that raises ends debug_issue with outcome "raised".    *)
(***************************************************************************)
EXTENDS Integers, Sequences, FiniteSets, TLC

VARIABLES
    pc,                          \* position in debug_issue
    i,                           \* the round counter of `for i in range(DEBUG_ROUNDS)`
    issue,                       \* issue.description
    lab_log,                     \* list[ExperimentResult]
    lab_log_summary,             \* str
    theories,                    \* the round's list of Theory
    tidx,                        \* position of `for theory in theories`
    experiments_with_estimates,  \* the round's flat list of ExperimentEstimate
    experiments_worth_running,   \* the round's plan
    eidx,                        \* position of `for experiment in experiments_worth_running`
    falsified_theories,          \* set of theory keys
    outcome,                     \* "running", "result", "failure" or "raised"
    ret,                         \* the value debug_issue returned
    run_log,                     \* history: the results run_experiment returned, in call
                                 \* order, each with its round and its position in the plan
    calls,                       \* history: number of collaborator calls made, by collaborator
    generated,                   \* history: number of theories generated so far in the run
    sessions,                    \* BashSessionManager.sessions (src/zzc.py)
    procs,                       \* the processes started by subprocess.Popen, in order
    bash_ret,                    \* the last return of start_session or send_command
    messages,                    \* the conversation of main() (src/zzc.py)
    zpc,                         \* position in main()
    tool_pos,                    \* position of `for tool_call in tool_calls`
    response                     \* the last return of send_prompt

debugVars == <<pc, i, issue, lab_log, lab_log_summary, theories, tidx,
               experiments_with_estimates, experiments_worth_running, eidx,
               falsified_theories, outcome, ret, run_log, calls, generated>>

bashVars == <<sessions, procs, bash_ret>>

chatVars == <<messages, zpc, tool_pos, response>>

zzcVars == <<sessions, procs, bash_ret, messages, zpc, tool_pos, response>>

vars == <<pc, i, issue, lab_log, lab_log_summary, theories, tidx,
          experiments_with_estimates, experiments_worth_running, eidx,
          falsified_theories, outcome, ret, run_log, calls, generated,
          sessions, procs, bash_ret, messages, zpc, tool_pos, response>>

----------------------------------------------------------------------------
(* Program constants *)

DEBUG_ROUNDS == 5
ODDS_FACTOR == 1
COST_FACTOR == 1
FLOOR == 3

(* Bounds of the environment *)

MaxTheories == 2        \* longest list one call of the theory generator returns
\* theories the generator returns over one run: as many as there are rounds,
\* so that every round can have one
MaxTotalTheories == DEBUG_ROUNDS
MaxEstimates == 4       \* longest input of the selector checked on its own

----------------------------------------------------------------------------
(* Strings *)

NLNL == "\n\n"
BANNER == "Failed to debug issue."
OriginalDescription == <<"it crashes">>

RECURSIVE Join(_, _)
\* sep.join(strs)
Join(sep, strs) ==
    IF strs = <<>> THEN <<>>
    ELSE IF Len(strs) = 1 THEN Head(strs)
    ELSE Head(strs) \o <<sep>> \o Join(sep, Tail(strs))

summarize_lab_log(results) ==
    Join(NLNL, [k \in 1..Len(results) |-> results[k].summary])

\* f"{original_issue.description}\n\n{lab_log_summary}"
IssueDescription(original, summary) == original \o <<NLNL>> \o summary

\* the banner left out
FailureSummary_NoBanner(summary) == summary

\* f"Failed to debug issue.\n\n{lab_log_summary}"
FailureSummary(summary) == <<BANNER, NLNL>> \o summary

----------------------------------------------------------------------------
(* Data model *)

key(theory) == theory.description

\* with ODDS_FACTOR and COST_FACTOR bound to the values of src/debugging.py
roi_estimate(e) ==
    ODDS_FACTOR * e.experiment.theory.odds * e.odds - COST_FACTOR * e.cost

\* Required fields of the models that add_context builds.
ModelFields(model) ==
    CASE model = "Theory" -> {"description", "odds", "issue"}
      [] model = "ExperimentDesign" -> {"description", "theory"}
      [] model = "ExperimentEstimate" -> {"odds", "cost", "experiment"}
      [] model = "ExperimentResult" ->
            {"is_theory_correct", "summary", "detailed_log", "experiment"}

\* new_model(**result.model_dump(), **{key: context}) with key = "issue":
\* pydantic ignores extra fields and raises when a required one is missing.
add_context_validates(new_model, dumped) ==
    ModelFields(new_model) \subseteq (dumped \cup {"issue"})

----------------------------------------------------------------------------
(* Collaborators *)

TheoryPool ==
    { [description |-> "d1", odds |-> 1],
      [description |-> "d2", odds |-> 0] }

RECURSIVE SeqsUpTo(_, _)
SeqsUpTo(S, n) ==
    IF n = 0 THEN {<<>>}
    ELSE LET shorter == SeqsUpTo(S, n - 1)
         IN  shorter \cup { Append(s, x) : s \in {t \in shorter : Len(t) = n - 1}, x \in S }

Min(a, b) == IF a < b THEN a ELSE b

\* What one call of brainstorm_theories may return.
TheoryLists == SeqsUpTo(TheoryPool, Min(MaxTheories, MaxTotalTheories - generated))

brainstorm_experiments(theory) ==
    << [description |-> "read the code", theory |-> theory],
       [description |-> "run it and see what happens", theory |-> theory] >>

estimate_cost_and_odds(experiment) ==
    [experiment |-> experiment, odds |-> 1, cost |-> 0]

\* What the function wrapped by add_context(ExperimentResult) may return: the
\* fields it dumps, with a verdict and a summary.  The function in the
\* repository returns ExperimentResultData(None, "", ""), without `experiment`.
ResultDataFields == {"is_theory_correct", "summary", "detailed_log"}

RunnerOutputs ==
    { [is_theory_correct |-> "none", summary |-> <<>>, dumped |-> ResultDataFields],
      [is_theory_correct |-> "none", summary |-> <<>>,
       dumped |-> ResultDataFields \cup {"experiment"}],
      [is_theory_correct |-> "false", summary |-> <<"refuted">>,
       dumped |-> ResultDataFields \cup {"experiment"}],
      [is_theory_correct |-> "true", summary |-> <<"confirmed">>,
       dumped |-> ResultDataFields \cup {"experiment"}] }

ExperimentResult(out, experiment) ==
    [is_theory_correct |-> out.is_theory_correct, summary |-> out.summary,
     experiment |-> experiment]

----------------------------------------------------------------------------
(* Experiment selector *)

RECURSIVE InsertSorted(_, _)
\* e placed after every element whose roi is not larger (stable)
InsertSorted(sorted, e) ==
    IF sorted = <<>> THEN <<e>>
    ELSE IF roi_estimate(e) < roi_estimate(Head(sorted))
         THEN <<e>> \o sorted
         ELSE <<Head(sorted)>> \o InsertSorted(Tail(sorted), e)

\* the estimates left in the order of arrival
SortedByRoi_Unsorted(estimates) == estimates

RECURSIVE SortedByRoi(_)
\* sorted(estimates, key=lambda e: e.roi_estimate)
SortedByRoi(estimates) ==
    IF estimates = <<>> THEN <<>>
    ELSE InsertSorted(SortedByRoi(SubSeq(estimates, 1, Len(estimates) - 1)),
                      estimates[Len(estimates)])

RECURSIVE Filter_Inclusive(_, _)
\* the floor taken as i <= 3
Filter_Inclusive(sorted, k) ==
    IF k > Len(sorted) THEN <<>>
    ELSE (IF k - 1 <= FLOOR \/ roi_estimate(sorted[k]) > 0
          THEN <<sorted[k].experiment>> ELSE <<>>) \o Filter_Inclusive(sorted, k + 1)

RECURSIVE Filter(_, _)
\* the entries at 0-based position k - 1 < FLOOR or with roi_estimate > 0
Filter(sorted, k) ==
    IF k > Len(sorted) THEN <<>>
    ELSE (IF k - 1 < FLOOR \/ roi_estimate(sorted[k]) > 0
          THEN <<sorted[k].experiment>> ELSE <<>>) \o Filter(sorted, k + 1)

choose_experiments_worth_running(estimates) ==
    Filter(SortedByRoi(estimates), 1)

----------------------------------------------------------------------------
(* src/zzc.py: BashSessionManager.  A line that readline() returns is the
   string before its newline; a text is the sequence of its lines; uuid4
   values are the strings "1", "2", ... *)

\* `if len(output_lines) > 1000`
OUTPUT_LIMIT == 1000

\* session ids the caller uses, and calls it makes to the manager
MaxSessionId == 2
MaxBashCalls == 4

SessionIds == 1..MaxSessionId

TextLine == "x"
BlankLine == ""

\* str(uuid.uuid4()) of the process-th call
Uuid(process) == ToString(process)

\* f"COMMAND_DONE_{prompt_uuid}", which is also the line that echo prints for it
Marker(uuid) == "COMMAND_DONE_" \o uuid

TruncationNotice == "... (output truncated - too long)"

\* `marker in line`, for the lines that occur
Contains(line, marker) == line = marker

\* what a command may print before the marker: a few lines, or about as many
\* lines as the limit of the read loop
CommandOutputs ==
    { <<>>, <<TextLine>>, <<BlankLine>>,
      <<BlankLine, TextLine, BlankLine>>, <<TextLine, BlankLine, TextLine>> } \cup
        { [k \in 1..n |-> TextLine] : n \in {OUTPUT_LIMIT, OUTPUT_LIMIT + 1} }

\* self.sessions[session_id] = {...}, the dict as a set of entries
DictSet_KeepOld(d, session_id, process) ==
    d \cup {[session_id |-> session_id, process |-> process,
             prompt_uuid |-> Uuid(process)]}

DictSet(d, session_id, process) ==
    { e \in d : e.session_id # session_id } \cup
        {[session_id |-> session_id, process |-> process,
          prompt_uuid |-> Uuid(process)]}

\* `session_id not in self.sessions` and self.sessions[session_id]
DictHas(d, session_id) == \E e \in d : e.session_id = session_id
DictGet(d, session_id) == CHOOSE e \in d : e.session_id = session_id

\* the while loop of send_command on the lines the pipe delivers: the lines
\* collected, the lines left unread, and which break ended it
ReadLoop(pipe, uuid) ==
    LET marker == Marker(uuid)
        markers == { k \in 1..Len(pipe) : Contains(pipe[k], marker) }
        m == IF markers = {} THEN 0
             ELSE CHOOSE k \in markers : \A j \in markers : k <= j
    IN  IF m # 0 /\ m <= OUTPUT_LIMIT + 1
        THEN [lines |-> SubSeq(pipe, 1, m),
              rest |-> SubSeq(pipe, m + 1, Len(pipe)),
              ended |-> "marker"]
        ELSE IF Len(pipe) >= OUTPUT_LIMIT + 1
        THEN [lines |-> Append(SubSeq(pipe, 1, OUTPUT_LIMIT + 1), TruncationNotice),
              rest |-> SubSeq(pipe, OUTPUT_LIMIT + 2, Len(pipe)),
              ended |-> "truncated"]
        ELSE [lines |-> pipe, rest |-> <<>>, ended |-> "eof"]

\* output_lines[:-1] if output_lines else ""
DropLast(lines) ==
    IF lines = <<>> THEN <<>> ELSE SubSeq(lines, 1, Len(lines) - 1)

\* "".join(lines).strip(): the whitespace at both ends goes, that is the
\* blank lines at both ends and the newline of the last line left
Strip(lines) ==
    LET inked == { k \in 1..Len(lines) : lines[k] # BlankLine }
    IN  IF inked = {} THEN <<>>
        ELSE LET lo == CHOOSE k \in inked :
                           \A j \in 1..(k - 1) : lines[j] = BlankLine
                 hi == CHOOSE k \in inked :
                           \A j \in (k + 1)..Len(lines) : lines[j] = BlankLine
             IN  SubSeq(lines, lo, hi)

\* a return of the manager: `call` is the number of the call that returned,
\* `read` and `ended` record output_lines and the break that ended the loop
NoReturn ==
    [call |-> 0, op |-> "none", session_id |-> 0, status |-> "none",
     output |-> <<>>, read |-> <<>>, ended |-> "none"]

Return(op, session_id, status) ==
    [NoReturn EXCEPT !.call = bash_ret.call + 1, !.op = op,
                     !.session_id = session_id, !.status = status]

InitZzc ==
    /\ sessions = {}
    /\ procs = <<>>
    /\ bash_ret = NoReturn
    /\ messages = <<>>
    /\ zpc = "input"
    /\ tool_pos = 1
    /\ response = [error |-> FALSE]

----------------------------------------------------------------------------
(* debug_issue *)

\* `if result.is_theory_correct:`
Truthy_Never(verdict) == FALSE
Truthy(verdict) == verdict = "true"

\* `if result.is_theory_correct is not None:`
IsNotNone_Always(verdict) == TRUE
IsNotNone(verdict) == verdict # "none"

\* `if experiment.theory.key in falsified_theories:`
already_falsified_Never(experiment, falsified) == FALSE
already_falsified_Any(experiment, falsified) == falsified # {}
already_falsified(experiment, falsified) == key(experiment.theory) \in falsified

\* `lab_log.append(result)`
lab_log_append_Front(log, result) == <<result>> \o log
lab_log_append_Twice(log, result) == log \o <<result, result>>
lab_log_append(log, result) == Append(log, result)

\* `for experiment in experiments_worth_running`: the position after k
advance_Stay(k) == k
advance(k) == k + 1

\* `for i in range(DEBUG_ROUNDS)`: whether round r is in the range
in_range_OneLess(r) == r < DEBUG_ROUNDS - 1
in_range(r) == r < DEBUG_ROUNDS

Init ==
    /\ pc = "brainstorm_theories"
    /\ i = 0
    /\ issue = OriginalDescription
    /\ lab_log = <<>>
    /\ lab_log_summary = <<>>
    /\ theories = <<>>
    /\ tidx = 1
    /\ experiments_with_estimates = <<>>
    /\ experiments_worth_running = <<>>
    /\ eidx = 1
    /\ falsified_theories = {}
    /\ outcome = "running"
    /\ ret = [exception |-> "none"]
    /\ run_log = <<>>
    /\ calls = [generator |-> 0, proposer |-> 0, estimator |-> 0, selector |-> 0,
                runner |-> 0, failed |-> 0]
    /\ generated = 0
    /\ InitZzc

\* theories = brainstorm_theories(issue); experiments_with_estimates = []
BrainstormTheories ==
    /\ pc = "brainstorm_theories"
    /\ \E ts \in TheoryLists :
         /\ theories' = ts
         /\ generated' = generated + Len(ts)
         /\ pc' = IF ts = <<>> THEN "choose" ELSE "brainstorm_experiments"
    /\ calls' = [calls EXCEPT !.generator = @ + 1]
    /\ tidx' = 1
    /\ experiments_with_estimates' = <<>>
    /\ UNCHANGED <<i, issue, lab_log, lab_log_summary, experiments_worth_running,
                   eidx, falsified_theories, outcome, ret, run_log>>
    /\ UNCHANGED zzcVars

\* the loop over the theories left after its first iteration
BrainstormExperiments_FirstTheoryOnly ==
    /\ pc = "brainstorm_experiments"
    /\ LET theory == theories[tidx]
           experiments == brainstorm_experiments(theory)
       IN  /\ experiments_with_estimates' = experiments_with_estimates \o
                  [k \in 1..Len(experiments) |-> estimate_cost_and_odds(experiments[k])]
           /\ calls' = [calls EXCEPT !.proposer = @ + 1,
                                     !.estimator = @ + Len(experiments)]
    /\ tidx' = tidx + 1
    /\ pc' = "choose"
    /\ UNCHANGED <<i, issue, lab_log, lab_log_summary, theories,
                   experiments_worth_running, eidx, falsified_theories, outcome,
                   ret, run_log, generated>>
    /\ UNCHANGED zzcVars

\* one iteration of `for theory in theories`
BrainstormExperiments ==
    /\ pc = "brainstorm_experiments"
    /\ LET theory == theories[tidx]
           experiments == brainstorm_experiments(theory)
       IN  /\ experiments_with_estimates' = experiments_with_estimates \o
                  [k \in 1..Len(experiments) |-> estimate_cost_and_odds(experiments[k])]
           /\ calls' = [calls EXCEPT !.proposer = @ + 1,
                                     !.estimator = @ + Len(experiments)]
    /\ tidx' = tidx + 1
    /\ pc' = IF tidx = Len(theories) THEN "choose" ELSE "brainstorm_experiments"
    /\ UNCHANGED <<i, issue, lab_log, lab_log_summary, theories,
                   experiments_worth_running, eidx, falsified_theories, outcome,
                   ret, run_log, generated>>
    /\ UNCHANGED zzcVars

\* experiments_worth_running = choose_experiments_worth_running(...)
\* falsified_theories = set()
ChooseExperiments ==
    /\ pc = "choose"
    /\ experiments_worth_running' =
           choose_experiments_worth_running(experiments_with_estimates)
    /\ falsified_theories' = {}
    /\ calls' = [calls EXCEPT !.selector = @ + 1]
    /\ eidx' = 1
    /\ pc' = "run"
    /\ UNCHANGED <<i, issue, lab_log, lab_log_summary, theories, tidx,
                   experiments_with_estimates, outcome, ret, run_log, generated>>
    /\ UNCHANGED zzcVars

\* sorted(estimates, key=lambda e: e.roi_estimate) reads e.roi_estimate for
\* every estimate.  The property reads ODDS_FACTOR and COST_FACTOR as globals
\* of src/models.py, which defines and imports neither: unless the process
\* binds them there, the first read raises NameError.
ChooseExperimentsRaises ==
    /\ pc = "choose"
    /\ experiments_with_estimates # <<>>
    /\ pc' = "done"
    /\ outcome' = "raised"
    /\ ret' = [exception |-> "NameError"]
    /\ UNCHANGED <<i, issue, lab_log, lab_log_summary, theories, tidx,
                   experiments_with_estimates, experiments_worth_running, eidx,
                   falsified_theories, run_log, calls, generated>>
    /\ UNCHANGED zzcVars

\* if experiment.theory.key in falsified_theories: continue
SkipExperiment ==
    /\ pc = "run"
    /\ eidx <= Len(experiments_worth_running)
    /\ already_falsified(experiments_worth_running[eidx], falsified_theories)
    /\ eidx' = advance(eidx)
    /\ UNCHANGED <<pc, i, issue, lab_log, lab_log_summary, theories, tidx,
                   experiments_with_estimates, experiments_worth_running,
                   falsified_theories, outcome, ret, run_log, calls, generated>>
    /\ UNCHANGED zzcVars

\* result = run_experiment(experiment) and the three branches on its verdict
RunExperiment ==
    /\ pc = "run"
    /\ eidx <= Len(experiments_worth_running)
    /\ LET experiment == experiments_worth_running[eidx]
       IN  /\ ~already_falsified(experiment, falsified_theories)
           /\ calls' = [calls EXCEPT !.runner = @ + 1]
           /\ \E out \in RunnerOutputs :
                LET result == ExperimentResult(out, experiment)
                IN  IF ~add_context_validates("ExperimentResult", out.dumped)
                    THEN /\ pc' = "done"
                         /\ outcome' = "raised"
                         /\ ret' = [exception |-> "ValidationError"]
                         /\ UNCHANGED <<lab_log, eidx, falsified_theories, run_log>>
                    ELSE /\ run_log' = Append(run_log, [round |-> i, position |-> eidx,
                                                       result |-> result])
                         /\ IF Truthy(result.is_theory_correct)
                            THEN /\ ret' = result
                                 /\ outcome' = "result"
                                 /\ pc' = "done"
                                 /\ UNCHANGED <<lab_log, eidx, falsified_theories>>
                            ELSE /\ falsified_theories' =
                                        IF IsNotNone(result.is_theory_correct)
                                        THEN falsified_theories \cup {key(experiment.theory)}
                                        ELSE falsified_theories
                                 /\ lab_log' = lab_log_append(lab_log, result)
                                 /\ eidx' = advance(eidx)
                                 /\ UNCHANGED <<pc, outcome, ret>>
    /\ UNCHANGED <<i, issue, lab_log_summary, theories, tidx,
                   experiments_with_estimates, experiments_worth_running, generated>>
    /\ UNCHANGED zzcVars

\* the next issue built from the previous round's issue
EndRound_FromPreviousIssue ==
    /\ pc = "run"
    /\ eidx > Len(experiments_worth_running)
    /\ lab_log_summary' = summarize_lab_log(lab_log)
    /\ issue' = IssueDescription(issue, lab_log_summary')
    /\ i' = i + 1
    /\ pc' = IF in_range(i + 1) THEN "brainstorm_theories" ELSE "return_failure"
    /\ UNCHANGED <<lab_log, theories, tidx, experiments_with_estimates,
                   experiments_worth_running, eidx, falsified_theories, outcome,
                   ret, run_log, calls, generated>>
    /\ UNCHANGED zzcVars

\* the loop left when a round had no theories
EndRound_StopsWhenEmpty ==
    /\ pc = "run"
    /\ eidx > Len(experiments_worth_running)
    /\ lab_log_summary' = summarize_lab_log(lab_log)
    /\ issue' = IssueDescription(OriginalDescription, lab_log_summary')
    /\ i' = i + 1
    /\ pc' = IF in_range(i + 1) /\ theories # <<>>
             THEN "brainstorm_theories" ELSE "return_failure"
    /\ UNCHANGED <<lab_log, theories, tidx, experiments_with_estimates,
                   experiments_worth_running, eidx, falsified_theories, outcome,
                   ret, run_log, calls, generated>>
    /\ UNCHANGED zzcVars

\* lab_log_summary = summarize_lab_log(lab_log); issue = Issue(...)
EndRound ==
    /\ pc = "run"
    /\ eidx > Len(experiments_worth_running)
    /\ lab_log_summary' = summarize_lab_log(lab_log)
    /\ issue' = IssueDescription(OriginalDescription, lab_log_summary')
    /\ i' = i + 1
    /\ pc' = IF in_range(i + 1) THEN "brainstorm_theories" ELSE "return_failure"
    /\ UNCHANGED <<lab_log, theories, tidx, experiments_with_estimates,
                   experiments_worth_running, eidx, falsified_theories, outcome,
                   ret, run_log, calls, generated>>
    /\ UNCHANGED zzcVars

\* return Failure(issue=issue, summary=..., lab_log=lab_log)
ReturnFailure ==
    /\ pc = "return_failure"
    /\ ret' = [issue |-> issue, summary |-> FailureSummary(lab_log_summary),
               lab_log |-> lab_log]
    /\ outcome' = "failure"
    /\ pc' = "done"
    /\ UNCHANGED <<i, issue, lab_log, lab_log_summary, theories, tidx,
                   experiments_with_estimates, experiments_worth_running, eidx,
                   falsified_theories, run_log, calls, generated>>
    /\ UNCHANGED zzcVars

Next ==
    \/ BrainstormTheories
    \/ BrainstormExperiments
    \/ ChooseExperiments
    \/ ChooseExperimentsRaises
    \/ SkipExperiment
    \/ RunExperiment
    \/ EndRound
    \/ ReturnFailure

Spec == Init /\ [][Next]_vars

----------------------------------------------------------------------------
(* debug_issue with collaborators that can fail.  None of the calls is inside
   a try statement, so the exception leaves debug_issue. *)

\* what debug_issue does with an exception of a collaborator call
Propagate ==
    /\ pc' = "done"
    /\ outcome' = "raised"
    /\ ret' = [exception |-> "CollaboratorError"]
    /\ UNCHANGED <<i, issue, lab_log, lab_log_summary, theories, tidx,
                   experiments_with_estimates, experiments_worth_running, eidx,
                   falsified_theories, run_log, generated>>
    /\ UNCHANGED zzcVars

\* brainstorm_theories(issue) raises
BrainstormTheoriesFails_Masked ==
    /\ pc = "brainstorm_theories"
    /\ calls' = [calls EXCEPT !.generator = @ + 1, !.failed = 1]
    /\ theories' = <<>>
    /\ tidx' = 1
    /\ experiments_with_estimates' = <<>>
    /\ pc' = "choose"
    /\ UNCHANGED <<i, issue, lab_log, lab_log_summary, experiments_worth_running,
                   eidx, falsified_theories, outcome, ret, run_log, generated>>
    /\ UNCHANGED zzcVars

BrainstormTheoriesFails ==
    /\ pc = "brainstorm_theories"
    /\ calls' = [calls EXCEPT !.generator = @ + 1, !.failed = 1]
    /\ Propagate

\* brainstorm_experiments(theory) raises, or one of the calls of
\* estimate_cost_and_odds after it
BrainstormExperimentsFails ==
    /\ pc = "brainstorm_experiments"
    /\ \E n \in 0..Len(brainstorm_experiments(theories[tidx])) :
           calls' = [calls EXCEPT !.proposer = @ + 1, !.estimator = @ + n,
                                 !.failed = 1]
    /\ Propagate

\* run_experiment(experiment) raises
RunExperimentFails ==
    /\ pc = "run"
    /\ eidx <= Len(experiments_worth_running)
    /\ ~already_falsified(experiments_worth_running[eidx], falsified_theories)
    /\ calls' = [calls EXCEPT !.runner = @ + 1, !.failed = 1]
    /\ Propagate

NextFail ==
    \/ Next
    \/ BrainstormTheoriesFails
    \/ BrainstormExperimentsFails
    \/ RunExperimentFails

SpecFail == Init /\ [][NextFail]_vars

----------------------------------------------------------------------------
(* BashSessionManager driven by an arbitrary caller *)

\* start_session(session_id): Popen succeeds
StartSession(session_id) ==
    /\ bash_ret.call < MaxBashCalls
    /\ LET process == Len(procs) + 1
       IN  /\ procs' = Append(procs, [uuid |-> Uuid(process), stdin |-> 0,
                                      stdout |-> <<>>, alive |-> TRUE])
           /\ sessions' = DictSet(sessions, session_id, process)
           /\ bash_ret' = Return("start_session", session_id, "started")

\* start_session(session_id): Popen raises, the except clause returns the text
StartSessionFails(session_id) ==
    /\ bash_ret.call < MaxBashCalls
    /\ bash_ret' = Return("start_session", session_id, "start_error")
    /\ UNCHANGED <<sessions, procs>>

\* send_command(session_id, command): `if session_id not in self.sessions`
SendCommandNotFound(session_id) ==
    /\ bash_ret.call < MaxBashCalls
    /\ ~DictHas(sessions, session_id)
    /\ bash_ret' = Return("send_command", session_id, "not_found")
    /\ UNCHANGED <<sessions, procs>>

\* send_command(session_id, command): the process is gone, stdin.write raises
\* and the except clause returns the text
SendCommandFails(session_id) ==
    /\ DictHas(sessions, session_id)
    /\ bash_ret.call < MaxBashCalls
    /\ ~procs[DictGet(sessions, session_id).process].alive
    /\ bash_ret' = Return("send_command", session_id, "exec_error")
    /\ UNCHANGED <<sessions, procs>>

\* send_command(session_id, command): the command is written, the process
\* prints `printed` and then either the marker or nothing more (it exits)
SendCommand(session_id, printed, exits) ==
    /\ DictHas(sessions, session_id)
    /\ LET session == DictGet(sessions, session_id)
           process == session.process
           pipe == procs[process].stdout \o printed \o
                       (IF exits THEN <<>> ELSE <<Marker(session.prompt_uuid)>>)
           loop == ReadLoop(pipe, session.prompt_uuid)
       IN  /\ bash_ret.call < MaxBashCalls
           /\ procs[process].alive
           /\ procs' = [procs EXCEPT ![process].stdin = @ + 1,
                                     ![process].stdout = loop.rest,
                                     ![process].alive = ~exits]
           /\ bash_ret' = [Return("send_command", session_id, "output") EXCEPT
                               !.output = Strip(DropLast(loop.lines)),
                               !.read = loop.lines,
                               !.ended = loop.ended]
    /\ UNCHANGED sessions

BashStart == \E s \in SessionIds : StartSession(s) /\ UNCHANGED <<debugVars, chatVars>>

BashStartFails ==
    \E s \in SessionIds : StartSessionFails(s) /\ UNCHANGED <<debugVars, chatVars>>

BashSendNotFound ==
    \E s \in SessionIds : SendCommandNotFound(s) /\ UNCHANGED <<debugVars, chatVars>>

BashSendFails ==
    \E s \in SessionIds : SendCommandFails(s) /\ UNCHANGED <<debugVars, chatVars>>

BashSend ==
    \E s \in SessionIds, printed \in CommandOutputs, exits \in BOOLEAN :
        SendCommand(s, printed, exits) /\ UNCHANGED <<debugVars, chatVars>>

NextBash ==
    \/ BashStart
    \/ BashStartFails
    \/ BashSendNotFound
    \/ BashSendFails
    \/ BashSend

SpecBash == Init /\ [][NextBash]_vars

----------------------------------------------------------------------------
(* main() of src/zzc.py: the user, the LLM and the tool loop *)

\* tool calls in one assistant message, and messages in the conversation
MaxToolCalls == 2
MaxMessages == 6

\* tool calls the LLM may ask for; `parses` is whether json.loads accepts the
\* arguments and they hold the keys that execute_tool_call reads
ToolCallPool ==
    { [id |-> "call_a", name |-> "start_bash_session", session_id |-> 1, parses |-> TRUE],
      [id |-> "call_b", name |-> "send_bash_command", session_id |-> 1, parses |-> TRUE],
      [id |-> "call_c", name |-> "send_bash_command", session_id |-> MaxSessionId,
       parses |-> TRUE],
      [id |-> "call_d", name |-> "read_file", session_id |-> 1, parses |-> TRUE],
      [id |-> "call_e", name |-> "start_bash_session", session_id |-> 1, parses |-> FALSE] }

\* response["choices"][0]["message"]
AssistantMessages ==
    { [role |-> "assistant", tool_calls |-> tcs] :
          tcs \in SeqsUpTo(ToolCallPool, MaxToolCalls) }

\* the string a tool returned
ToolResult(r) == [status |-> r.status, session_id |-> r.session_id, output |-> r.output]

\* the dict appended at lines 265-269 for the k-th tool call
tool_message_FirstId(tool_calls, k, result) ==
    [role |-> "tool", tool_call_id |-> tool_calls[1].id, content |-> result]

tool_message(tool_calls, k, result) ==
    [role |-> "tool", tool_call_id |-> tool_calls[k].id, content |-> result]

\* bash_manager.cleanup() in the finally clause
Cleanup ==
    procs' = [k \in 1..Len(procs) |->
                 IF \E e \in sessions : e.process = k
                 THEN [procs[k] EXCEPT !.alive = FALSE] ELSE procs[k]]

\* main() leaves its loops: break at `quit`, or an exception caught at line 276
Exit ==
    /\ zpc' = "exited"
    /\ Cleanup
    /\ UNCHANGED <<sessions, bash_ret, messages, tool_pos, response, debugVars>>

\* input() returns a text that is not a quit word
UserMessage ==
    /\ zpc = "input"
    /\ Len(messages) < MaxMessages
    /\ messages' = Append(messages, [role |-> "user", content |-> "please"])
    /\ zpc' = "send_prompt"
    /\ UNCHANGED <<tool_pos, response, bashVars, debugVars>>

\* input() returns quit, exit or q
UserQuits == zpc = "input" /\ Exit

\* send_prompt returns {"error": ...}
SendPromptError ==
    /\ zpc = "send_prompt"
    /\ response' = [error |-> TRUE]
    /\ zpc' = "input"
    /\ UNCHANGED <<messages, tool_pos, bashVars, debugVars>>

\* send_prompt returns a completion
SendPrompt ==
    /\ zpc = "send_prompt"
    /\ Len(messages) < MaxMessages
    /\ \E m \in AssistantMessages :
          /\ response' = [error |-> FALSE, message |-> m]
          /\ messages' = Append(messages, m)
          /\ zpc' = IF m.tool_calls = <<>> THEN "input" ELSE "execute_tools"
    /\ tool_pos' = 1
    /\ UNCHANGED <<bashVars, debugVars>>

\* send_prompt returns JSON without "choices": line 243 raises
SendPromptMalformed == zpc = "send_prompt" /\ Exit

\* the tool the call names, run on the manager
RunTool(tool_call) ==
    \/ /\ tool_call.name = "start_bash_session"
       /\ \/ StartSession(tool_call.session_id)
          \/ StartSessionFails(tool_call.session_id)
    \/ /\ tool_call.name = "send_bash_command"
       /\ \/ SendCommandNotFound(tool_call.session_id)
          \/ SendCommandFails(tool_call.session_id)
          \/ \E printed \in CommandOutputs, exits \in BOOLEAN :
                 SendCommand(tool_call.session_id, printed, exits)

\* one iteration of `for tool_call in tool_calls` with a tool of the manager
ExecuteTool ==
    /\ zpc = "execute_tools"
    /\ Len(messages) < MaxMessages
    /\ LET tool_calls == response.message.tool_calls
       IN  /\ tool_calls[tool_pos].parses
           /\ RunTool(tool_calls[tool_pos])
           /\ messages' = Append(messages,
                   tool_message(tool_calls, tool_pos, ToolResult(bash_ret')))
           /\ zpc' = IF tool_pos = Len(tool_calls) THEN "send_prompt"
                     ELSE "execute_tools"
    /\ tool_pos' = tool_pos + 1
    /\ UNCHANGED <<response, debugVars>>

\* one iteration with a tool name that execute_tool_call does not know
ExecuteUnknownTool ==
    /\ zpc = "execute_tools"
    /\ Len(messages) < MaxMessages
    /\ LET tool_calls == response.message.tool_calls
       IN  /\ tool_calls[tool_pos].parses
           /\ tool_calls[tool_pos].name \notin {"start_bash_session", "send_bash_command"}
           /\ messages' = Append(messages,
                   tool_message(tool_calls, tool_pos,
                       [status |-> "unknown_tool", session_id |-> 0, output |-> <<>>]))
           /\ zpc' = IF tool_pos = Len(tool_calls) THEN "send_prompt"
                     ELSE "execute_tools"
    /\ tool_pos' = tool_pos + 1
    /\ UNCHANGED <<response, bashVars, debugVars>>

\* json.loads or a key lookup of execute_tool_call raises
ExecuteToolRaises ==
    /\ zpc = "execute_tools"
    /\ ~response.message.tool_calls[tool_pos].parses
    /\ Exit

NextChat ==
    \/ UserMessage
    \/ UserQuits
    \/ SendPromptError
    \/ SendPrompt
    \/ SendPromptMalformed
    \/ ExecuteTool
    \/ ExecuteUnknownTool
    \/ ExecuteToolRaises

SpecChat == Init /\ [][NextChat]_vars

----------------------------------------------------------------------------
(* The selector on its own: every list of estimates up to MaxEstimates *)

SelTheoryPool ==
    TheoryPool \cup { [description |-> "d3", odds |-> -1] }

SelEstimatePool ==
    { estimate_cost_and_odds(brainstorm_experiments(t)[k]) :
          t \in SelTheoryPool, k \in 1..2 }

InitSel ==
    /\ pc = "choose"
    /\ i = 0
    /\ issue = OriginalDescription
    /\ lab_log = <<>>
    /\ lab_log_summary = <<>>
    /\ theories = <<>>
    /\ tidx = 1
    /\ experiments_with_estimates \in SeqsUpTo(SelEstimatePool, MaxEstimates)
    /\ experiments_worth_running = <<>>
    /\ eidx = 1
    /\ falsified_theories = {}
    /\ outcome = "running"
    /\ ret = [exception |-> "none"]
    /\ run_log = <<>>
    /\ calls = [generator |-> 0, proposer |-> 0, estimator |-> 0, selector |-> 0,
                runner |-> 0, failed |-> 0]
    /\ generated = 0
    /\ InitZzc

NextSel == ChooseExperiments

SpecSel == InitSel /\ [][NextSel]_vars

----------------------------------------------------------------------------
(* Properties *)

Verdict(k) == run_log[k].result.is_theory_correct
KeyOf(k) == run_log[k].result.experiment.theory.description

RECURSIVE Concat(_)
\* the summaries of a list of results with a blank line between neighbours
Concat(results) ==
    IF Len(results) = 0 THEN <<>>
    ELSE IF Len(results) = 1 THEN results[1].summary
    ELSE Concat(SubSeq(results, 1, Len(results) - 1))
             \o <<"\n\n">> \o results[Len(results)].summary

RunResults == [k \in 1..Len(run_log) |-> run_log[k].result]

\* C1: once an executed experiment of a theory with description d returned
\* is_theory_correct = false, no later executed experiment of the run, in the
\* same or in a later round, belongs to a theory with description d.
C1_FalsificationPersists ==
    \A a, b \in 1..Len(run_log) :
        (a < b /\ Verdict(a) = "false") => KeyOf(b) # KeyOf(a)

\* C2: a confirming result ends the run at once: it is the last result the
\* runner returned, debug_issue has returned that very result, and from then
\* on no collaborator is called and nothing is executed.
C2_SuccessShortCircuit ==
    /\ [](\A k \in 1..Len(run_log) :
            Verdict(k) = "true" =>
                /\ k = Len(run_log)
                /\ pc = "done"
                /\ outcome = "result"
                /\ ret = run_log[k].result)
    /\ [][outcome = "result" => (calls' = calls /\ run_log' = run_log /\ ret' = ret)]_vars

C2_Witness ==
    /\ outcome = "result"
    /\ Len(lab_log) > 0
    /\ eidx < Len(experiments_worth_running)
    /\ i + 1 < DEBUG_ROUNDS

\* C3: a run in which no result confirms and no call raises ends in a Failure
\* after exactly DEBUG_ROUNDS calls of the theory generator, never more, and
\* the Failure's lab_log has one entry per executed experiment.
C3_RoundBudget ==
    /\ calls.generator <= DEBUG_ROUNDS
    /\ (pc = "done" /\ outcome # "raised" /\ \A k \in 1..Len(run_log) : Verdict(k) # "true")
          => outcome = "failure"
    /\ outcome = "failure" =>
          /\ calls.generator = DEBUG_ROUNDS
          /\ i = DEBUG_ROUNDS
          /\ Len(ret.lab_log) = calls.runner

C3_Witness ==
    /\ outcome = "failure"
    /\ \A r \in 0..DEBUG_ROUNDS - 1 : \E k \in 1..Len(run_log) : run_log[k].round = r
    /\ calls.runner < calls.estimator

\* C4: the description handed to the theory generator in every round after
\* the first is the original description, a blank line, and the summaries of
\* the whole lab_log so far in log order with blank lines between them.
C4_IssueCarryOver ==
    (pc = "brainstorm_theories" /\ i >= 1) =>
        issue = OriginalDescription \o <<"\n\n">> \o Concat(lab_log)

C4_Witness ==
    /\ pc = "brainstorm_theories"
    /\ i >= 2
    /\ Len(lab_log) >= 3
    /\ \E k \in 1..Len(lab_log) : lab_log[k].summary # <<>>

\* The ordering of the selector, stated on positions: p is the permutation of
\* the input positions that is ascending in roi and keeps ties in input order.
PositionPermutations(n) ==
    { p \in [1..n -> 1..n] : \A a, b \in 1..n : a # b => p[a] # p[b] }

RoiOrder(estimates) ==
    CHOOSE p \in PositionPermutations(Len(estimates)) :
        \A a, b \in 1..Len(estimates) :
            a < b => \/ roi_estimate(estimates[p[a]]) < roi_estimate(estimates[p[b]])
                     \/ /\ roi_estimate(estimates[p[a]]) = roi_estimate(estimates[p[b]])
                        /\ p[a] < p[b]

\* C5: the selector returns, in roi order, exactly the first 3 of the
\* ordering together with every estimate of strictly positive roi: all of them
\* when there are fewer than 3, exactly the first 3 when all roi are negative.
C5_SelectorFloor ==
    pc = "run" =>
        LET est == experiments_with_estimates
            n == Len(est)
            p == RoiOrder(est)
            chosen == { k \in 1..n : k <= 3 \/ roi_estimate(est[p[k]]) > 0 }
            plan == experiments_worth_running
        IN  /\ Len(plan) = Cardinality(chosen)
            /\ \A k \in chosen :
                  plan[Cardinality({j \in chosen : j <= k})] = est[p[k]].experiment
            /\ n < 3 => Len(plan) = n
            /\ (n >= 3 /\ \A k \in 1..n : roi_estimate(est[k]) < 0) =>
                  plan = [k \in 1..3 |-> est[p[k]].experiment]

C5_Witness ==
    /\ pc = "run"
    /\ Len(experiments_with_estimates) = 4
    /\ Len(experiments_worth_running) = 3
    /\ roi_estimate(experiments_with_estimates[1]) = 0
    /\ roi_estimate(experiments_with_estimates[4]) = -1

Keys == { t.description : t \in TheoryPool }

LastRun == run_log'[Len(run_log')]

\* this step is a call of run_experiment that returned
Executes ==
    /\ Len(run_log') = Len(run_log) + 1
    /\ SubSeq(run_log', 1, Len(run_log)) = run_log

RefutedInRound(d, r) ==
    \E k \in 1..Len(run_log) :
        run_log[k].round = r /\ Verdict(k) = "false" /\ KeyOf(k) = d

RunsInRound(r) == Cardinality({ k \in 1..Len(run_log) : run_log[k].round = r })

\* C6: when the experiment that is next in the plan belongs to a theory that
\* an earlier experiment of the same round refuted, the step passes over it:
\* nothing is executed or logged, and the plan itself stays as selected.
C6_SkipWithinRound ==
    [][ /\ ( /\ pc = "run"
             /\ eidx <= Len(experiments_worth_running)
             /\ RefutedInRound(experiments_worth_running[eidx].theory.description, i) )
           => /\ eidx' = eidx + 1
              /\ pc' = "run"
              /\ run_log' = run_log
              /\ lab_log' = lab_log
              /\ calls' = calls
        /\ (pc = "run" /\ pc' = "run") =>
              experiments_worth_running' = experiments_worth_running ]_vars

C6_Witness ==
    /\ pc = "run"
    /\ eidx > 1
    /\ RefutedInRound(experiments_worth_running[eidx - 1].theory.description, i)
    /\ RunsInRound(i) < eidx - 1
    /\ Len(experiments_worth_running) >= eidx - 1

\* C7: when debug_issue ends, it has returned a confirming ExperimentResult or
\* a Failure.
C7_TwoShapes ==
    pc = "done" =>
        \/ outcome = "result" /\ ret.is_theory_correct = "true"
        \/ outcome = "failure"

NonConfirming(result) == result.is_theory_correct # "true"

\* C8: every step leaves lab_log as it is or appends the result that
\* run_experiment returned in that step, so lab_log is the non-confirming
\* results in the order of execution.
C8_AppendOnly ==
    /\ [][ \/ lab_log' = lab_log
           \/ Executes /\ lab_log' = Append(lab_log, LastRun.result) ]_vars
    /\ [](lab_log = SelectSeq(RunResults, NonConfirming))

C8_Witness ==
    /\ pc = "brainstorm_theories"
    /\ Len(lab_log) >= 3
    /\ run_log[1].round = 0
    /\ run_log[Len(run_log)].round = 2
    /\ lab_log[1] # lab_log[Len(lab_log)]

\* C9: a key enters the falsified set in a step exactly when that step
\* executes an experiment of that theory with verdict false; an inconclusive
\* result leaves the set alone and the round goes on, and an experiment is
\* passed over only when its theory was refuted in the round.
C9_FalsifiedOnRefutation ==
    [][ /\ \A d \in Keys :
              (d \in falsified_theories' /\ d \notin falsified_theories)
                 <=> ( /\ Executes
                       /\ LastRun.result.is_theory_correct = "false"
                       /\ LastRun.result.experiment.theory.description = d )
        /\ (Executes /\ LastRun.result.is_theory_correct = "none") =>
              /\ falsified_theories' = falsified_theories
              /\ pc' = "run"
              /\ eidx' = eidx + 1
              /\ outcome' = "running"
        /\ (pc = "run" /\ pc' = "run" /\ eidx' = eidx + 1 /\ run_log' = run_log) =>
              RefutedInRound(experiments_worth_running[eidx].theory.description, i)
      ]_vars

C9_Witness ==
    \E k \in 1..Len(run_log) - 1 :
        /\ Verdict(k) = "none"
        /\ KeyOf(k + 1) = KeyOf(k)
        /\ run_log[k + 1].round = run_log[k].round

\* C10: a returned Failure carries the last constructed issue (the original
\* description, a blank line, the summaries of all results), the banner
\* followed by a blank line and the same summaries, and every result in
\* execution order.
C10_FailureReport ==
    outcome = "failure" =>
        /\ ret.issue = issue
        /\ ret.issue = OriginalDescription \o <<"\n\n">> \o Concat(RunResults)
        /\ ret.summary = <<"Failed to debug issue.", "\n\n">> \o Concat(RunResults)
        /\ ret.lab_log = RunResults

C10_Witness ==
    /\ outcome = "failure"
    /\ Len(ret.lab_log) >= 3
    /\ \E k \in 1..Len(run_log) : run_log[k].round = DEBUG_ROUNDS - 1
    /\ \E k \in 1..Len(ret.lab_log) : ret.lab_log[k].summary # <<>>

\* C11: a round for which the generator returned no theories selects and
\* executes nothing and leaves lab_log alone; it still counts as a round, the
\* next issue is the original description, a blank line and the summary of
\* the unchanged lab_log, and the run goes on to the next round.
C11_EmptyRound ==
    /\ []((theories = <<>> /\ pc \in {"choose", "run"}) =>
             /\ experiments_with_estimates = <<>>
             /\ RunsInRound(i) = 0
             /\ pc = "run" => experiments_worth_running = <<>>)
    /\ [][(theories = <<>> /\ pc = "run") =>
             /\ calls'.runner = calls.runner
             /\ run_log' = run_log
             /\ lab_log' = lab_log
             /\ i' = i + 1
             /\ issue' = OriginalDescription \o <<"\n\n">> \o Concat(lab_log)
             /\ outcome' = "running"
             /\ pc' = IF i + 1 < DEBUG_ROUNDS THEN "brainstorm_theories"
                      ELSE "return_failure"]_vars

C11_Witness ==
    /\ pc = "brainstorm_theories"
    /\ theories = <<>>
    /\ i >= 2
    /\ i < DEBUG_ROUNDS
    /\ Len(lab_log) > 0
    /\ calls.generator = i

ExperimentOf(k) == run_log[k].result.experiment

SameExperiment(a, b) ==
    /\ ExperimentOf(a).description = ExperimentOf(b).description
    /\ ExperimentOf(a).theory.description = ExperimentOf(b).theory.description

\* C12 as claimed: no experiment, identified by its description and the
\* description of its theory, is executed twice in a run.
C12_AtMostOncePerRun ==
    \A a, b \in 1..Len(run_log) : a # b => ~SameExperiment(a, b)

\* C12 as amended: every entry of a round's plan is executed at most once:
\* two executions of one round are at different positions of the plan, each
\* is the experiment at its position, and the loop has passed it.
C12_AtMostOncePerPlanEntry ==
    /\ \A a, b \in 1..Len(run_log) :
          (a # b /\ run_log[a].round = run_log[b].round) =>
              run_log[a].position # run_log[b].position
    /\ pc = "run" =>
          \A a \in 1..Len(run_log) :
              run_log[a].round = i =>
                  /\ run_log[a].position < eidx
                  /\ ExperimentOf(a) = experiments_worth_running[run_log[a].position]

C12_Witness ==
    \E a, b \in 1..Len(run_log) :
        /\ a < b
        /\ SameExperiment(a, b)
        /\ run_log[a].round < run_log[b].round
        /\ Verdict(a) = "none"

\* C13: a collaborator call that fails is made once and ends the run with
\* that failure: the step counts the failing call and no other of its kind,
\* nothing is logged, no result and no Failure is returned, and afterwards no
\* collaborator is called again.
C13_FailurePropagates ==
    /\ [](calls.failed > 0 => (outcome = "raised" /\ pc = "done"))
    /\ [][(outcome = "running" /\ outcome' = "raised") =>
             /\ pc' = "done"
             /\ DOMAIN ret' = {"exception"}
             /\ ret'.exception # "none"
             /\ lab_log' = lab_log
             /\ run_log' = run_log
             /\ calls'.generator <= calls.generator + 1
             /\ calls'.runner <= calls.runner + 1
             /\ calls'.proposer <= calls.proposer + 1
             /\ i' = i]_vars
    /\ [][outcome = "raised" => (calls' = calls /\ ret' = ret /\ outcome' = outcome)]_vars
    /\ [](\A kind \in {"generator", "selector"} : calls[kind] <= i + 1)

C13_Witness ==
    /\ outcome = "raised"
    /\ ret.exception = "CollaboratorError"
    /\ calls.failed = 1
    /\ i >= 1
    /\ Len(lab_log) > 0
    /\ calls.runner > Len(run_log)

\* the roi_estimate the selector saw for the experiment of run k
RoiOf(k) == roi_estimate(estimate_cost_and_odds(ExperimentOf(k)))

\* C14: of two experiments executed in the same round, the one executed first
\* stands earlier in the plan of that round and has no larger roi_estimate; the
\* plan being executed is in ascending roi order.
C14_PlanOrder ==
    /\ \A a, b \in 1..Len(run_log) :
          (a < b /\ run_log[a].round = run_log[b].round) =>
              /\ run_log[a].position < run_log[b].position
              /\ RoiOf(a) <= RoiOf(b)
    /\ pc = "run" =>
          \A p, q \in 1..Len(experiments_worth_running) :
              p < q => roi_estimate(estimate_cost_and_odds(experiments_worth_running[p]))
                         <= roi_estimate(estimate_cost_and_odds(experiments_worth_running[q]))

C14_Witness ==
    /\ pc = "run"
    /\ Len(theories) = 2
    /\ theories[1].odds > theories[2].odds
    /\ \E a, b \in 1..Len(run_log) :
          /\ a < b
          /\ run_log[a].round = i
          /\ run_log[b].round = i
          /\ RoiOf(a) < RoiOf(b)
          /\ ExperimentOf(a).theory = theories[2]
          /\ ExperimentOf(b).theory = theories[1]

\* plan position p was executed in round r
ExecutedAt(r, p) ==
    \E k \in 1..Len(run_log) : run_log[k].round = r /\ run_log[k].position = p

\* the loop of round i has passed every entry of the plan
PlanExhausted == pc = "run" /\ eidx > Len(experiments_worth_running)

\* C15 (as stated): when a round with at least 3 estimates has gone through
\* its plan, the three estimates of lowest roi_estimate have all been executed.
C15_WorstThreeAlwaysRun ==
    (PlanExhausted /\ Len(experiments_with_estimates) >= FLOOR) =>
        \A p \in 1..FLOOR : ExecutedAt(i, p)

\* C15 (amended): in a round with at least 3 estimates the three estimates of
\* lowest roi_estimate are the first three entries of the plan, whatever their
\* roi; and every plan entry the loop has passed was executed unless an
\* earlier execution of the same round refuted its theory.
C15_WorstThreeSelected ==
    pc = "run" =>
        /\ Len(experiments_with_estimates) >= FLOOR =>
              /\ Len(experiments_worth_running) >= FLOOR
              /\ \A p \in 1..FLOOR :
                    experiments_worth_running[p] =
                        SortedByRoi(experiments_with_estimates)[p].experiment
        /\ \A p \in 1..Len(experiments_worth_running) :
              p < eidx =>
                  \/ ExecutedAt(i, p)
                  \/ \E k \in 1..Len(run_log) :
                        /\ run_log[k].round = i
                        /\ run_log[k].position < p
                        /\ Verdict(k) = "false"
                        /\ KeyOf(k) = experiments_worth_running[p].theory.description

C15_Witness ==
    /\ PlanExhausted
    /\ Len(experiments_with_estimates) > FLOOR
    /\ roi_estimate(SortedByRoi(experiments_with_estimates)[1]) <= 0
    /\ ExecutedAt(i, 1)
    /\ ~ExecutedAt(i, 2)
    /\ ExecutedAt(i, 3)

RECURSIVE EstimatesOf(_)
\* the estimates of every experiment of every theory of ts, theory by theory
EstimatesOf(ts) ==
    IF ts = <<>> THEN <<>>
    ELSE LET experiments == brainstorm_experiments(ts[Len(ts)])
         IN  EstimatesOf(SubSeq(ts, 1, Len(ts) - 1)) \o
                 [k \in 1..Len(experiments) |-> estimate_cost_and_odds(experiments[k])]

BeforeExecution == pc \in {"brainstorm_theories", "brainstorm_experiments", "choose"}

\* C16: in round i the generator has been called once when proposing starts,
\* the selector once when execution starts and not before; nothing of the round
\* is executed before the selector has run; the plan being executed is the
\* selection from the estimates of all theories of the round in one list; and
\* an execution step calls no other collaborator and changes neither the
\* theories, the estimates nor the plan.
C16_Phases ==
    /\ []((BeforeExecution /\ pc # "brainstorm_theories") => calls.generator = i + 1)
    /\ [](BeforeExecution => (calls.selector = i /\ RunsInRound(i) = 0))
    /\ [](pc = "run" =>
             /\ calls.generator = i + 1
             /\ calls.selector = i + 1
             /\ calls.proposer * 2 = calls.estimator
             /\ experiments_with_estimates = EstimatesOf(theories)
             /\ experiments_worth_running =
                    choose_experiments_worth_running(EstimatesOf(theories)))
    /\ [][Executes =>
             /\ pc = "run"
             /\ theories' = theories
             /\ experiments_with_estimates' = experiments_with_estimates
             /\ experiments_worth_running' = experiments_worth_running
             /\ \A kind \in {"generator", "proposer", "estimator", "selector"} :
                   calls'[kind] = calls[kind]
             /\ calls'.runner = calls.runner + 1]_vars

C16_Witness ==
    /\ pc = "run"
    /\ i >= 1
    /\ Len(theories) = 2
    /\ theories[1] # theories[2]
    /\ Len(experiments_with_estimates) = 4
    /\ RunsInRound(i) >= 2
    /\ RunsInRound(i - 1) >= 1

NonConfirmingRuns == { k \in 1..Len(run_log) : Verdict(k) \in {"false", "none"} }

\* this step passes over the next plan entry without executing it
Skips ==
    /\ pc = "run"
    /\ pc' = "run"
    /\ eidx' # eidx
    /\ run_log' = run_log

\* C17: every entry of lab_log has the verdict refuted or inconclusive and is
\* the result of some executed experiment; lab_log has as many entries as
\* there were executions with such a verdict; a step that skips a plan entry
\* adds no entry, an execution with a confirming verdict adds none, and an
\* execution with another verdict makes lab_log one entry longer.
C17_LabLogEntries ==
    /\ [](\A k \in 1..Len(lab_log) :
             /\ lab_log[k].is_theory_correct \in {"false", "none"}
             /\ \E r \in NonConfirmingRuns : run_log[r].result = lab_log[k])
    /\ [](Len(lab_log) = Cardinality(NonConfirmingRuns))
    /\ [][Skips => lab_log' = lab_log]_vars
    /\ [][Executes =>
             Len(lab_log') = Len(lab_log) +
                 (IF LastRun.result.is_theory_correct = "true" THEN 0 ELSE 1)]_vars

C17_Witness ==
    /\ \E k \in 1..Len(run_log) : Verdict(k) = "true"
    /\ \E k \in 1..Len(run_log) : Verdict(k) = "false"
    /\ \E k \in 1..Len(run_log) : Verdict(k) = "none"
    /\ \E r \in 0..DEBUG_ROUNDS : \E p \in 1..3 :
          /\ ExecutedAt(r, p + 1)
          /\ ~ExecutedAt(r, p)
    /\ Len(lab_log) = Len(run_log) - 1
    /\ Len(lab_log) >= 3

IsMarker(line) == \E k \in 1..Len(procs) : Contains(line, Marker(procs[k].uuid))

IsOutput(line) == line \in {TextLine, BlankLine}

\* C18: whenever send_command returns collected output, the line it dropped is
\* the COMMAND_DONE marker line, and the text returned is, up to the final
\* strip, every line of command output that the loop read.
C18_DropsOnlyMarker ==
    (bash_ret.status = "output" /\ bash_ret.read # <<>>) =>
        /\ IsMarker(bash_ret.read[Len(bash_ret.read)])
        /\ bash_ret.output = Strip(SelectSeq(bash_ret.read, IsOutput))

\* this step is a call of the manager that returned
BashCall(op) == bash_ret'.call = bash_ret.call + 1 /\ bash_ret'.op = op

TrackedIds(d) == { e.session_id : e \in d }

\* C19: a send_command for an id that is not in the table returns the
\* not-found text and changes neither the table nor any process (nothing is
\* written to a stdin, nothing is read); a start_session that succeeds leaves
\* exactly one entry for its id, with the new process, and the entries of the
\* other ids as they were; the table never holds two entries for one id.
C19_UnknownIdAndReplacement ==
    /\ [](\A e1, e2 \in sessions : e1.session_id = e2.session_id => e1 = e2)
    /\ [][(BashCall("send_command") /\ bash_ret'.session_id \notin TrackedIds(sessions)) =>
             /\ bash_ret'.status = "not_found"
             /\ bash_ret'.output = <<>>
             /\ sessions' = sessions
             /\ procs' = procs]_vars
    /\ [][(BashCall("start_session") /\ bash_ret'.status = "started") =>
             /\ Len(procs') = Len(procs) + 1
             /\ \A e \in sessions' :
                   IF e.session_id = bash_ret'.session_id
                   THEN e.process = Len(procs')
                   ELSE e \in sessions
             /\ TrackedIds(sessions') = TrackedIds(sessions) \cup {bash_ret'.session_id}]_vars

C19_Witness ==
    /\ bash_ret.op = "send_command"
    /\ bash_ret.status = "not_found"
    /\ Len(procs) >= 2
    /\ procs[1].alive
    /\ procs[1].stdin > 0
    /\ \E e \in sessions : e.process = 2 /\ e.session_id # bash_ret.session_id
    /\ \A e \in sessions : e.process # 1

\* the tool messages that answer the assistant message at position k, so far
\* as the conversation goes: one per tool call, in order, with its id
AnsweredUpTo(k, n) ==
    /\ k + n <= Len(messages)
    /\ \A j \in 1..n :
          /\ messages[k + j].role = "tool"
          /\ messages[k + j].tool_call_id = messages[k].tool_calls[j].id
    /\ k + n < Len(messages) => messages[k + n + 1].role # "tool"

Answered(k) == AnsweredUpTo(k, Len(messages[k].tool_calls))

\* C20: whenever a request is about to be sent, every assistant message of the
\* conversation is followed by exactly one tool message per tool call, in the
\* order of the calls and with their ids, and there is no other tool message;
\* during the tool loop the calls before tool_pos are answered in that way;
\* and a step from the inner loop back to user input is either an error
\* response or the append of an assistant message without tool calls.
C20_ToolMessages ==
    /\ [](zpc = "send_prompt" =>
             \A k \in 1..Len(messages) :
                 /\ messages[k].role = "assistant" => Answered(k)
                 /\ messages[k].role = "tool" =>
                        (k > 1 /\ messages[k - 1].role \in {"assistant", "tool"}))
    /\ [](zpc = "execute_tools" =>
             LET k == Len(messages) - (tool_pos - 1)
             IN  /\ k >= 1
                 /\ messages[k] = response.message
                 /\ AnsweredUpTo(k, tool_pos - 1))
    /\ [][(zpc # "input" /\ zpc' = "input") =>
             /\ zpc = "send_prompt"
             /\ \/ response'.error /\ messages' = messages
                \/ /\ ~response'.error
                   /\ response'.message.tool_calls = <<>>
                   /\ messages' = Append(messages, response'.message)]_vars

C20_Witness ==
    /\ zpc = "send_prompt"
    /\ Len(messages) >= 4
    /\ messages[2].role = "assistant"
    /\ Len(messages[2].tool_calls) = 2
    /\ messages[2].tool_calls[1].id # messages[2].tool_calls[2].id
    /\ messages[3].role = "tool"
    /\ messages[3].content.status = "started"
    /\ messages[4].role = "tool"
    /\ messages[4].content.status = "output"
    /\ messages[4].tool_call_id = messages[2].tool_calls[2].id

====
